---- MODULE Spec2Model ----
(***************************************************************************)
(* Model of the order-book dashboard script src/ui/streamlit_app.py.       *)
(*                                                                         *)
(* The script is re-executed top to bottom on every page load, widget      *)
(* interaction and st.rerun().  One execution is a "run" (a refresh        *)
(* cycle); pc is the position of the script thread inside the run.         *)
(*                                                                         *)
(* Three specifications share the variables:                               *)
(*   Spec       the script as a state machine (widgets, fetches, render,   *)
(*              st.stop, sleep and rerun);                                 *)
(*   SpecCodec  the price conversion of submit_order and format_price,     *)
(*              applied to every two-decimal price up to MaxCents;         *)
(*   SpecDepth  create_depth_chart applied to every book within bounds.    *)
(***************************************************************************)
EXTENDS Integers, Sequences, FiniteSets, TLC

VARIABLES
    pc,               \* position of the script thread
    button,           \* trigger value of the "Submit Order" button (session)
    checkbox,         \* value of the "Auto-refresh" checkbox widget (session)
    slider,           \* value of the "Refresh interval" slider widget (session)
    order_price,      \* value of the "Price ($)" number input (a binary64)
    auto_refresh,     \* script local, line 148
    refresh_interval, \* script local, lines 149-151
    quote, book, stats, trades,   \* script locals, lines 155-157 and 258
    up,               \* endpoints that answer 200 with a body during this run
    lastFetch,        \* the call of fetch_data that has just returned, until
                      \* the script reads its result
    lastSubmit,       \* the last call of submit_order: response, outcome
    message,          \* what the sidebar shows for the submission of this run
    rendered,         \* sections of the main view rendered in this run
    chart,            \* the figure create_depth_chart returned
    remaining,        \* seconds of time.sleep left
    clicks, posts,    \* clicks of Submit Order delivered, POST requests issued
    cancelled,        \* auto-refresh was unticked during the sleep, and the
                      \* operator has done nothing since
    payload,          \* the JSON body of the last POST
    decoded           \* format_price of the wire price (SpecCodec)

vars == <<pc, button, checkbox, slider, order_price, auto_refresh,
          refresh_interval, quote, book, stats, trades, up, lastFetch,
          lastSubmit, message, rendered, chart, remaining, clicks, posts,
          cancelled, payload, decoded>>

(***************************************************************************)
(* Bounds of the model.                                                    *)
(***************************************************************************)
MaxCents == 60        \* SpecCodec: prices 0.01 .. MaxCents/100
MaxLevels == 2        \* SpecDepth: bid levels per book
MaxAskLevels == 1     \* SpecDepth: ask levels per book
MaxPrice == 2         \* SpecDepth: level prices 1..MaxPrice (fixed point)
MaxQty == 2           \* SpecDepth: level quantities 0..MaxQty
MaxClicks == 2        \* Spec: clicks of Submit Order in one behaviour
MaxInterval == 2      \* Spec: the slider offers 1..MaxInterval seconds

(***************************************************************************)
(* Program constants.                                                      *)
(***************************************************************************)
Scale == 100          \* fixed-point scale of lines 54 and 64
StatusOK == 200       \* the only status taken as success, lines 43 and 58
MinCents == 1         \* min_value=0.01 of the price input, line 133
DefaultCents == 10500 \* value=105.00 of the price input, line 133
DefaultQuantity == 100 \* value=100 of the quantity input, line 134
DefaultInterval == 2  \* refresh_interval = 2, line 149
SliderMin == 1        \* lower end of the slider, line 151
SliderDefault == 2    \* initial value of the slider, line 151

None == [t |-> "None"]
Json(v) == [t |-> "json", v |-> v]

(***************************************************************************)
(* Binary64 arithmetic on two-decimal prices.                              *)
(*                                                                         *)
(* A price of k cents held in a Python float is the binary64 nearest to    *)
(* k/100.  With a = floor(log2(k/100)) that float is M * 2^(a-52) for the  *)
(* integer M nearest to k * 2^(52-a) / 100 = k * 2^(50-a) / 25.  So        *)
(*     25 * M = k * 2^(50-a) + err,   -12 <= err <= 12,                    *)
(* and err is found from k * 2^(50-a) mod 25 (25 is odd: no tie).  The     *)
(* float is represented exactly by the pair (cents, err):                  *)
(*     value = (k + err / 2^(50-a)) / 100.                                 *)
(***************************************************************************)
RECURSIVE Pow2(_)
Pow2(n) == IF n <= 0 THEN 1 ELSE 2 * Pow2(n - 1)

RECURSIVE Pow2Mod25(_)
Pow2Mod25(n) == IF n <= 0 THEN 1 ELSE (2 * Pow2Mod25(n - 1)) % 25

\* floor(log2(k)) for an integer k >= 1
FloorLog2(k) == CHOOSE b \in 0..30 : Pow2(b) <= k /\ k < Pow2(b + 1)

\* floor(log2(k / 100)) for an integer k >= 1
FloorLog2Price(k) ==
    CHOOSE a \in -7..23 :
        IF a >= 0 THEN Scale * Pow2(a) <= k /\ k < Scale * Pow2(a + 1)
                  ELSE Scale <= k * Pow2(-a) /\ k * Pow2(-a) < 2 * Scale

\* The binary64 nearest to k/100: what a decimal literal, a number input
\* holding that decimal, and the correctly rounded quotient k / 100.0 give.
NearestDouble(k) ==
    IF k = 0 THEN [cents |-> 0, err |-> 0]
    ELSE LET s == 50 - FloorLog2Price(k)
             r == ((k % 25) * Pow2Mod25(s)) % 25
         IN  [cents |-> k, err |-> IF r <= 12 THEN -r ELSE 25 - r]

\* price * 100 in binary64 (round to nearest, ties to even).  The exact
\* product is k + err / 2^(50-a).  Floats next to the integer k are spaced
\* 2^(b-52) apart above it, b = floor(log2(k)), and the same below it unless
\* k is a power of two, where the spacing below halves.  The result is k, the
\* float just below k or the float just above k; a tie goes to k, whose
\* significand is even.
MulScale(p) ==
    LET k == p.cents
        \* the spacings above and below k, in units of 2^-(50-a)
        gap == Pow2(FloorLog2(k) - FloorLog2Price(k) - 2)
        gapBelow == IF k = Pow2(FloorLog2(k)) THEN gap \div 2 ELSE gap
    IN  IF k = 0 THEN [int |-> 0, ulps |-> 0]
        ELSE IF p.err > 0 /\ 2 * p.err > gap THEN [int |-> k, ulps |-> 1]
        ELSE IF p.err < 0 /\ 2 * (-p.err) > gapBelow THEN [int |-> k, ulps |-> -1]
        ELSE [int |-> k, ulps |-> 0]

\* int(x): truncation toward zero of a positive float next to an integer
IntTrunc(x) == IF x.ulps < 0 THEN x.int - 1 ELSE x.int

\* line 54: int(price * 100)
ToWire(price) == IntTrunc(MulScale(price))

\* lines 62-64: price_fp / 100.0, the correctly rounded quotient
format_price(price_fp) == NearestDouble(price_fp)

(***************************************************************************)
(* create_depth_chart, lines 66-110.                                       *)
(***************************************************************************)
\* Series.cumsum(): running sums, in the order given
RECURSIVE CumSumFrom(_, _)
CumSumFrom(acc, qs) ==
    IF qs = <<>> THEN <<>>
    ELSE <<acc + Head(qs)>> \o CumSumFrom(acc + Head(qs), Tail(qs))

NoCumSum(qs) == qs
cumsum(qs) == CumSumFrom(0, qs)

\* lines 74-85 and 88-99: the trace of one side
SideTrace(name, levels) ==
    [name |-> name,
     x |-> [i \in 1..Len(levels) |-> format_price(levels[i].price)],
     y |-> cumsum([i \in 1..Len(levels) |-> levels[i].quantity])]

\* a variant of create_depth_chart that draws both sides in one frame,
\* sorted by price
RECURSIVE InsertByPrice(_, _)
InsertByPrice(l, sorted) ==
    IF sorted = <<>> THEN <<l>>
    ELSE IF l.price <= Head(sorted).price THEN <<l>> \o sorted
    ELSE <<Head(sorted)>> \o InsertByPrice(l, Tail(sorted))

RECURSIVE SortByPrice(_)
SortByPrice(levels) ==
    IF levels = <<>> THEN <<>>
    ELSE InsertByPrice(Head(levels), SortByPrice(Tail(levels)))

create_depth_chart_sorted(bids, asks) ==
    (IF bids # <<>> THEN <<SideTrace("Bids", SortByPrice(bids))>> ELSE <<>>)
    \o (IF asks # <<>> THEN <<SideTrace("Asks", SortByPrice(asks))>> ELSE <<>>)

\* the traces of the figure, in the order they are added
create_depth_chart(bids, asks) ==
    (IF bids # <<>> THEN <<SideTrace("Bids", bids)>> ELSE <<>>)
    \o (IF asks # <<>> THEN <<SideTrace("Asks", asks)>> ELSE <<>>)

(***************************************************************************)
(* HTTP responses.  A request either fails in the transport (a timeout, or *)
(* any other exception of requests) or yields a status and a body, which   *)
(* decodes as JSON or does not.                                            *)
(***************************************************************************)
Endpoints == {"quote", "book", "stats", "trades"}

Timeout == [transport |-> "timeout", status |-> 0, body |-> None]
ConnError == [transport |-> "error", status |-> 0, body |-> None]
BadStatus(s) == [transport |-> "ok", status |-> s, body |-> None]
Malformed == [transport |-> "ok", status |-> StatusOK, body |-> [t |-> "malformed"]]
Ok(v) == [transport |-> "ok", status |-> StatusOK, body |-> Json(v)]

FailResponses == {Timeout, ConnError, BadStatus(404), BadStatus(500), Malformed}

Level(p, q) == [price |-> p, quantity |-> q]

Bodies(endpoint) ==
    CASE endpoint = "quote" -> {[bestBid |-> 10450, bestAsk |-> 10500, spread |-> 50]}
      [] endpoint = "book" ->
            {[bids |-> <<Level(10450, 100), Level(10400, 50)>>,
              asks |-> <<Level(10500, 25)>>],
             [bids |-> <<>>, asks |-> <<>>]}
      [] endpoint = "stats" -> {[activeOrders |-> 3]}
      [] endpoint = "trades" ->
            {<<>>, <<[buyOrderId |-> 1, sellOrderId |-> 2,
                      price |-> 10450, quantity |-> 25]>>}

\* what the backend answers to GET /endpoint during a run
GetResponses(endpoint) ==
    IF endpoint \in up THEN {Ok(v) : v \in Bodies(endpoint)} ELSE FailResponses

\* what the backend answers to POST /orders
PostResponses ==
    {Timeout, ConnError, BadStatus(400), BadStatus(500), Malformed}
    \cup {Ok([status |-> "ACCEPTED", tradesCount |-> n]) : n \in 0..1}

(***************************************************************************)
(* fetch_data, lines 39-47.  The result says whether the call raised and   *)
(* what it returned.                                                       *)
(***************************************************************************)
\* a variant whose try block covers the request only
fetch_data_unguarded_json(resp) ==
    IF resp.transport # "ok" THEN [raised |-> FALSE, value |-> None]
    ELSE IF resp.status = StatusOK
         THEN IF resp.body.t = "json"
              THEN [raised |-> FALSE, value |-> resp.body]
              ELSE [raised |-> TRUE, value |-> None]
         ELSE [raised |-> FALSE, value |-> None]

fetch_data(resp) ==
    IF resp.transport # "ok"
    THEN [raised |-> FALSE, value |-> None]           \* line 42 raises; 45-47
    ELSE IF resp.status = StatusOK
         THEN IF resp.body.t = "json"
              THEN [raised |-> FALSE, value |-> resp.body]   \* line 44
              ELSE [raised |-> FALSE, value |-> None] \* json() raises; 45-47
         ELSE [raised |-> FALSE, value |-> None]      \* line 47

(***************************************************************************)
(* submit_order, lines 49-60.                                              *)
(***************************************************************************)
Str(text) == [t |-> "str", v |-> text]

\* lines 52-56
OrderPayload(side, price, quantity) ==
    [side |-> side, price |-> ToWire(price), quantity |-> quantity]

submit_order(side, price, quantity, resp) ==
    IF resp.transport # "ok"
    THEN [success |-> FALSE, result |-> Str(resp.transport)]  \* lines 59-60
    ELSE IF resp.status = StatusOK
         THEN IF resp.body.t = "json"
              THEN [success |-> TRUE, result |-> resp.body]   \* line 58
              ELSE [success |-> FALSE, result |-> Str("json")]  \* lines 59-60
         ELSE [success |-> FALSE, result |-> None]            \* line 58

(***************************************************************************)
(* The script.                                                             *)
(***************************************************************************)
\* requests.post calls made by one call of submit_order: line 57, in no loop
PostAttemptsRetrying(outcome) == IF outcome.success THEN 1 ELSE 2
PostAttempts(outcome) == 1

\* A new run starts at the top of the script: the locals of the previous run
\* and everything it rendered are gone.  The backend's state during the run
\* is the environment's choice.
NewRun ==
    /\ pc' = "sidebar"
    /\ quote' = None /\ book' = None /\ stats' = None /\ trades' = None
    /\ auto_refresh' = FALSE
    /\ refresh_interval' = DefaultInterval
    /\ lastFetch' = None
    /\ message' = None
    /\ rendered' = {}
    /\ chart' = None
    /\ remaining' = 0
    /\ up' \in SUBSET Endpoints

RunLocals == <<pc, quote, book, stats, trades, auto_refresh, refresh_interval,
               lastFetch, message, rendered, chart, remaining, up>>

\* lines 125-145: the sidebar form; the button is true only in the run its
\* click started
SidebarStep ==
    /\ pc = "sidebar"
    /\ IF button
       THEN \E resp \in PostResponses :
              LET r == submit_order("BUY", order_price, DefaultQuantity, resp)
              IN  /\ payload' = OrderPayload("BUY", order_price, DefaultQuantity)
                  /\ lastSubmit' = [resp |-> resp, outcome |-> r]
                  /\ posts' = posts + PostAttempts(r)
                  /\ message' =
                       IF r.success
                       THEN [kind |-> "success",
                             info |-> r.result.v.tradesCount > 0]   \* 139-141
                       ELSE [kind |-> "error", text |-> r.result]   \* 143
       ELSE UNCHANGED <<payload, lastSubmit, posts, message>>
    /\ button' = FALSE
    /\ pc' = "controls"
    /\ UNCHANGED <<checkbox, slider, order_price, auto_refresh, refresh_interval,
                   quote, book, stats, trades, up, lastFetch, rendered, chart,
                   remaining, clicks, cancelled, decoded>>

\* lines 148-151; a slider that is not drawn loses its value
ControlsStep ==
    /\ pc = "controls"
    /\ auto_refresh' = checkbox
    /\ refresh_interval' = IF checkbox THEN slider ELSE DefaultInterval
    /\ slider' = IF checkbox THEN slider ELSE SliderDefault
    /\ pc' = "fetch_quote"
    /\ UNCHANGED <<button, checkbox, order_price, quote, book, stats, trades, up,
                   lastFetch, lastSubmit, message, rendered, chart, remaining,
                   clicks, posts, cancelled, payload, decoded>>

\* one call of fetch_data from the top level of the script: an exception it
\* lets through ends the run
FetchOutcome(endpoint, resp) ==
    [endpoint |-> endpoint, resp |-> resp, outcome |-> fetch_data(resp)]

\* line 155
FetchQuote ==
    /\ pc = "fetch_quote"
    /\ \E resp \in GetResponses("quote") :
         /\ lastFetch' = FetchOutcome("quote", resp)
         /\ IF lastFetch'.outcome.raised
            THEN pc' = "crashed" /\ UNCHANGED quote
            ELSE pc' = "fetch_book" /\ quote' = lastFetch'.outcome.value
    /\ UNCHANGED <<button, checkbox, slider, order_price, auto_refresh,
                   refresh_interval, book, stats, trades, up, lastSubmit, message,
                   rendered, chart, remaining, clicks, posts, cancelled, payload,
                   decoded>>

\* line 156
FetchBook ==
    /\ pc = "fetch_book"
    /\ \E resp \in GetResponses("book") :
         /\ lastFetch' = FetchOutcome("book", resp)
         /\ IF lastFetch'.outcome.raised
            THEN pc' = "crashed" /\ UNCHANGED book
            ELSE pc' = "fetch_stats" /\ book' = lastFetch'.outcome.value
    /\ UNCHANGED <<button, checkbox, slider, order_price, auto_refresh,
                   refresh_interval, quote, stats, trades, up, lastSubmit, message,
                   rendered, chart, remaining, clicks, posts, cancelled, payload,
                   decoded>>

\* line 157
FetchStats ==
    /\ pc = "fetch_stats"
    /\ \E resp \in GetResponses("stats") :
         /\ lastFetch' = FetchOutcome("stats", resp)
         /\ IF lastFetch'.outcome.raised
            THEN pc' = "crashed" /\ UNCHANGED stats
            ELSE pc' = "check" /\ stats' = lastFetch'.outcome.value
    /\ UNCHANGED <<button, checkbox, slider, order_price, auto_refresh,
                   refresh_interval, quote, book, trades, up, lastSubmit, message,
                   rendered, chart, remaining, clicks, posts, cancelled, payload,
                   decoded>>

\* lines 160-172: the notice and st.stop(), which ends the run
CheckBackend ==
    /\ pc = "check"
    /\ IF quote = None /\ book = None /\ stats = None
       THEN rendered' = rendered \cup {"notice"} /\ pc' = "stopped"
       ELSE rendered' = rendered /\ pc' = "metrics"
    /\ lastFetch' = None
    /\ UNCHANGED <<button, checkbox, slider, order_price, auto_refresh,
                   refresh_interval, quote, book, stats, trades, up,
                   lastSubmit, message, chart, remaining, clicks, posts, cancelled,
                   payload, decoded>>

\* lines 176-192
RenderMetrics ==
    /\ pc = "metrics"
    /\ rendered' = IF quote # None THEN rendered \cup {"metrics"} ELSE rendered
    /\ pc' = "book"
    /\ UNCHANGED <<button, checkbox, slider, order_price, auto_refresh,
                   refresh_interval, quote, book, stats, trades, up, lastFetch,
                   lastSubmit, message, chart, remaining, clicks, posts, cancelled,
                   payload, decoded>>

\* lines 195-235
RenderBook ==
    /\ pc = "book"
    /\ IF book # None
       THEN /\ chart' = [traces |-> create_depth_chart(book.v.bids, book.v.asks)]
            /\ rendered' = rendered \cup {"depth", "tables"}
       ELSE UNCHANGED <<chart, rendered>>
    /\ pc' = "stats"
    /\ UNCHANGED <<button, checkbox, slider, order_price, auto_refresh,
                   refresh_interval, quote, book, stats, trades, up, lastFetch,
                   lastSubmit, message, remaining, clicks, posts, cancelled,
                   payload, decoded>>

\* lines 238-255
RenderStats ==
    /\ pc = "stats"
    /\ rendered' = IF stats # None THEN rendered \cup {"stats"} ELSE rendered
    /\ pc' = "fetch_trades"
    /\ UNCHANGED <<button, checkbox, slider, order_price, auto_refresh,
                   refresh_interval, quote, book, stats, trades, up, lastFetch,
                   lastSubmit, message, chart, remaining, clicks, posts, cancelled,
                   payload, decoded>>

\* line 258
FetchTrades ==
    /\ pc = "fetch_trades"
    /\ \E resp \in GetResponses("trades") :
         /\ lastFetch' = FetchOutcome("trades", resp)
         /\ IF lastFetch'.outcome.raised
            THEN pc' = "crashed" /\ UNCHANGED trades
            ELSE pc' = "trades" /\ trades' = lastFetch'.outcome.value
    /\ UNCHANGED <<button, checkbox, slider, order_price, auto_refresh,
                   refresh_interval, quote, book, stats, up, lastSubmit, message,
                   rendered, chart, remaining, clicks, posts, cancelled, payload,
                   decoded>>

\* lines 259-277
RenderTrades ==
    /\ pc = "trades"
    /\ rendered' = IF trades # None /\ Len(trades.v) > 0
                   THEN rendered \cup {"trades"}
                   ELSE rendered \cup {"no_trades"}
    /\ pc' = "footer"
    /\ lastFetch' = None
    /\ UNCHANGED <<button, checkbox, slider, order_price, auto_refresh,
                   refresh_interval, quote, book, stats, trades, up,
                   lastSubmit, message, chart, remaining, clicks, posts, cancelled,
                   payload, decoded>>

\* lines 281-286: the footer, then the run ends or goes to sleep
AutoRefresh ==
    /\ pc = "footer"
    /\ IF auto_refresh
       THEN pc' = "sleep" /\ remaining' = refresh_interval
       ELSE pc' = "idle" /\ remaining' = 0
    /\ UNCHANGED <<button, checkbox, slider, order_price, auto_refresh,
                   refresh_interval, quote, book, stats, trades, up, lastFetch,
                   lastSubmit, message, rendered, chart, clicks, posts, cancelled,
                   payload, decoded>>

\* line 286: a second of time.sleep passes; nothing interrupts the sleep
Tick ==
    /\ pc = "sleep"
    /\ remaining > 0
    /\ remaining' = remaining - 1
    /\ UNCHANGED <<pc, button, checkbox, slider, order_price, auto_refresh,
                   refresh_interval, quote, book, stats, trades, up, lastFetch,
                   lastSubmit, message, rendered, chart, clicks, posts, cancelled,
                   payload, decoded>>

\* line 287: st.rerun()
Rerun ==
    /\ pc = "sleep"
    /\ remaining = 0
    /\ NewRun
    /\ UNCHANGED <<button, checkbox, slider, order_price, lastSubmit, clicks,
                   posts, cancelled, payload, decoded>>

(***************************************************************************)
(* The operator.  A widget interaction changes the widget's value in the   *)
(* session and asks for a run.  A run that has ended (normally or by       *)
(* st.stop) is followed by the new run at once; a script asleep in         *)
(* time.sleep sleeps on, and the run that st.rerun() starts sees the new   *)
(* values.  Interactions are taken at these points only: between two runs  *)
(* and during the sleep.                                                   *)
(***************************************************************************)
Interactive == pc \in {"idle", "stopped", "sleep"}

Deliver == IF pc = "sleep" THEN UNCHANGED RunLocals ELSE NewRun

\* line 136
ClickSubmit ==
    /\ Interactive
    /\ ~button
    /\ clicks < MaxClicks
    /\ button' = TRUE
    /\ clicks' = clicks + 1
    /\ cancelled' = FALSE
    /\ Deliver
    /\ UNCHANGED <<checkbox, slider, order_price, lastSubmit, posts, payload,
                   decoded>>

\* line 148
ToggleAutoRefresh ==
    /\ Interactive
    /\ checkbox' = ~checkbox
    /\ cancelled' = (pc = "sleep" /\ checkbox)
    /\ Deliver
    /\ UNCHANGED <<button, slider, order_price, lastSubmit, clicks, posts,
                   payload, decoded>>

\* line 151: the slider is on the page only in a run that drew it
MoveSlider ==
    /\ Interactive
    /\ auto_refresh
    /\ \E v \in SliderMin..MaxInterval :
         /\ v # slider
         /\ slider' = v
    /\ cancelled' = FALSE
    /\ Deliver
    /\ UNCHANGED <<button, checkbox, order_price, lastSubmit, clicks, posts,
                   payload, decoded>>

Init ==
    /\ pc = "sidebar"
    /\ button = FALSE
    /\ checkbox = FALSE
    /\ slider = SliderDefault
    /\ order_price = NearestDouble(DefaultCents)
    /\ auto_refresh = FALSE
    /\ refresh_interval = DefaultInterval
    /\ quote = None /\ book = None /\ stats = None /\ trades = None
    /\ up \in SUBSET Endpoints
    /\ lastFetch = None
    /\ lastSubmit = None
    /\ message = None
    /\ rendered = {}
    /\ chart = None
    /\ remaining = 0
    /\ clicks = 0 /\ posts = 0
    /\ cancelled = FALSE
    /\ payload = None
    /\ decoded = None

Next ==
    \/ SidebarStep \/ ControlsStep
    \/ FetchQuote \/ FetchBook \/ FetchStats \/ CheckBackend
    \/ RenderMetrics \/ RenderBook \/ RenderStats
    \/ FetchTrades \/ RenderTrades
    \/ AutoRefresh \/ Tick \/ Rerun
    \/ ClickSubmit \/ ToggleAutoRefresh \/ MoveSlider

Spec == Init /\ [][Next]_vars

(***************************************************************************)
(* SpecCodec: the sidebar form submits every two-decimal price from the    *)
(* minimum of the input up to MaxCents, and the wire price is decoded.     *)
(***************************************************************************)
\* lines 62-64 applied to the price of the payload
DecodeWire ==
    /\ payload # None
    /\ decoded = None
    /\ decoded' = format_price(payload.price)
    /\ UNCHANGED <<pc, button, checkbox, slider, order_price, auto_refresh,
                   refresh_interval, quote, book, stats, trades, up, lastFetch,
                   lastSubmit, message, rendered, chart, remaining, clicks, posts,
                   cancelled, payload>>

InitCodec ==
    /\ pc = "sidebar"
    /\ button = TRUE
    /\ checkbox = FALSE
    /\ slider = SliderDefault
    /\ order_price \in {NearestDouble(k) : k \in MinCents..MaxCents}
    /\ auto_refresh = FALSE
    /\ refresh_interval = DefaultInterval
    /\ quote = None /\ book = None /\ stats = None /\ trades = None
    /\ up = {}
    /\ lastFetch = None
    /\ lastSubmit = None
    /\ message = None
    /\ rendered = {}
    /\ chart = None
    /\ remaining = 0
    /\ clicks = 1 /\ posts = 0
    /\ cancelled = FALSE
    /\ payload = None
    /\ decoded = None

NextCodec == SidebarStep \/ DecodeWire

SpecCodec == InitCodec /\ [][NextCodec]_vars

(***************************************************************************)
(* SpecDepth: the book section is rendered for every book whose sides hold *)
(* up to MaxLevels bids and MaxAskLevels asks, in any order of prices.     *)
(***************************************************************************)
Levels == {Level(p, q) : p \in 1..MaxPrice, q \in 0..MaxQty}

LevelSeqs(n) == UNION {[1..m -> Levels] : m \in 0..n}

InitDepth ==
    /\ pc = "book"
    /\ button = FALSE
    /\ checkbox = FALSE
    /\ slider = SliderDefault
    /\ order_price = NearestDouble(DefaultCents)
    /\ auto_refresh = FALSE
    /\ refresh_interval = DefaultInterval
    /\ quote = None /\ stats = None /\ trades = None
    /\ book \in {Json([bids |-> b, asks |-> a]) :
                   b \in LevelSeqs(MaxLevels), a \in LevelSeqs(MaxAskLevels)}
    /\ up = {"book"}
    /\ lastFetch = None
    /\ lastSubmit = None
    /\ message = None
    /\ rendered = {}
    /\ chart = None
    /\ remaining = 0
    /\ clicks = 0 /\ posts = 0
    /\ cancelled = FALSE
    /\ payload = None
    /\ decoded = None

NextDepth == RenderBook

SpecDepth == InitDepth /\ [][NextDepth]_vars

(***************************************************************************)
(* Properties.                                                             *)
(***************************************************************************)
\* a run has ended: by st.stop, at the last line, or in the sleep before
\* st.rerun
RunEnded == pc \in {"stopped", "idle", "sleep"}

RECURSIVE SumQty(_)
SumQty(levels) ==
    IF levels = <<>> THEN 0 ELSE Head(levels).quantity + SumQty(Tail(levels))

TracesNamed(name) ==
    {i \in 1..Len(chart.traces) : chart.traces[i].name = name}

SideLevels(name) == IF name = "Bids" THEN book.v.bids ELSE book.v.asks

\* C1: decoding the wire price that submit_order encodes for a two-decimal
\* price p >= 0.01 gives back p, and the wire price is the nearest-cent
\* integer round(p * 100).
RoundTrip ==
    /\ payload # None => payload.price = order_price.cents
    /\ decoded # None => decoded = order_price

\* C2: the unavailability notice is shown in a run exactly when all four
\* resources give no data in it, and then nothing else is rendered; when at
\* least one resource is available the run renders the sections it has.
UnavailableIffAllFourFail ==
    RunEnded =>
        /\ ("notice" \in rendered) <=> (up = {})
        /\ "notice" \in rendered => rendered = {"notice"}
        /\ "trades" \in up => rendered \cap {"trades", "no_trades"} # {}

\* C3: while auto-refresh is enabled, a run that has ended, whatever failed
\* in it, is in the sleep that precedes the next run: it has neither stopped
\* nor ended for good.
PollingSurvivesFailure ==
    auto_refresh => pc \notin {"stopped", "idle", "crashed"}

\* C4: every click of Submit Order delivered to the script has caused exactly
\* one POST, once the run it started has passed the button; no rerun and no
\* other interaction adds a POST.
OnePostPerClick == posts = clicks - (IF button THEN 1 ELSE 0)

\* C4 witness: a failed submission, then a later run under auto-refresh,
\* asleep before its next rerun, with still the one POST
OnePostPerClickWitness ==
    /\ clicks = 1 /\ posts = 1
    /\ lastSubmit # None /\ ~lastSubmit.outcome.success
    /\ pc = "sleep" /\ auto_refresh
    /\ message = None

\* C5: once auto-refresh is unticked during the sleep, no read is issued
\* until the operator does something else.
CancelStopsNextFetch == cancelled => lastFetch = None

\* C6: fetch_data never raises; it returns None on a timeout, a transport
\* exception, a status other than success and a malformed body, and the
\* decoded body only for a successful, well-formed response.
FetchFailSoft ==
    /\ pc # "crashed"
    /\ lastFetch # None =>
         LET r == lastFetch.resp
             good == r.transport = "ok" /\ r.status = StatusOK /\ r.body.t = "json"
         IN  /\ ~lastFetch.outcome.raised
             /\ good => lastFetch.outcome.value = r.body
             /\ ~good => lastFetch.outcome.value = None

\* C6 witness: a malformed body of a 200 answer to the trades read, after
\* the other reads succeeded
FetchFailSoftWitness ==
    /\ lastFetch # None
    /\ lastFetch.endpoint = "trades"
    /\ lastFetch.resp = Malformed
    /\ lastFetch.outcome.value = None
    /\ quote # None
    /\ pc = "trades"

\* C7: a failed submission returns the failure flag with a reason string,
\* never an absent reason; a successful one the success flag with the
\* decoded result.
SubmitFailureHasReason ==
    lastSubmit # None =>
        IF lastSubmit.outcome.success
        THEN lastSubmit.outcome.result = lastSubmit.resp.body
        ELSE lastSubmit.outcome.result.t = "str"

\* C8: with non-negative quantities, the cumulative quantities plotted for a
\* side never decrease, and the last of them is the sum of the side's
\* quantities.
DepthMonotone ==
    chart # None =>
        \A name \in {"Bids", "Asks"} :
            /\ SideLevels(name) # <<>> => TracesNamed(name) # {}
            /\ \A t \in TracesNamed(name) :
                 LET y == chart.traces[t].y
                 IN  /\ \A i \in 1..(Len(y) - 1) : y[i] <= y[i + 1]
                     /\ y # <<>>
                     /\ y[Len(y)] = SumQty(SideLevels(name))

\* C8 witness: two bid levels with positive quantities
DepthMonotoneWitness ==
    /\ chart # None
    /\ Len(book.v.bids) = 2
    /\ book.v.bids[1].quantity > 0 /\ book.v.bids[2].quantity > 0
    /\ \E t \in TracesNamed("Bids") : chart.traces[t].y[2] > chart.traces[t].y[1]

\* C10: the curve of a side has one point per level, in the order given:
\* the i-th point is (price of level i / 100, sum of the quantities of levels
\* 1..i); an empty side has no trace; each side is accumulated on its own.
DepthPrefixSum ==
    chart # None =>
        \A name \in {"Bids", "Asks"} :
            LET levels == SideLevels(name)
            IN  IF levels = <<>>
                THEN TracesNamed(name) = {}
                ELSE /\ Cardinality(TracesNamed(name)) = 1
                     /\ \A t \in TracesNamed(name) :
                          LET x == chart.traces[t].x
                              y == chart.traces[t].y
                          IN  /\ Len(x) = Len(levels)
                              /\ Len(y) = Len(levels)
                              /\ \A i \in 1..Len(levels) :
                                   /\ x[i] = NearestDouble(levels[i].price)
                                   /\ y[i] = SumQty(SubSeq(levels, 1, i))

\* C10 witness: two bid levels at one price and no asks: one trace, two
\* points
DepthPrefixSumWitness ==
    /\ chart # None
    /\ Len(book.v.bids) = 2
    /\ book.v.bids[1].price = book.v.bids[2].price
    /\ book.v.bids[1].quantity > 0
    /\ book.v.asks = <<>>
    /\ Len(chart.traces) = 1
    /\ Len(chart.traces[1].y) = 2

\* C9: no read of a run is issued after rendering of that run has begun.
FetchBeforeRender == lastFetch # None => rendered = {}

====
